---- MODULE Spec2Model ----
(***************************************************************************)
(* libgreen/context.rs: the Context of a green thread (register file,      *)
(* boxed entry procedure, stack bounds), its constructors empty and new,   *)
(* the per-architecture call-frame builders, and Context::swap.            *)
(*                                                                         *)
(* Machine words are scaled down to AddrBits bits (TLC's integers cannot   *)
(* hold 2^32); the size of a word in bytes, the 16-byte alignment mask and *)
(* every slot index are those of the source.  Arithmetic on addresses      *)
(* wraps modulo AddrSpace, as `uint` arithmetic wraps modulo 2^32 / 2^64.  *)
(***************************************************************************)
EXTENDS Integers, Sequences, FiniteSets, TLC

\* ------------------------------------------------------------ bounds
\* the width of a machine word, scaled
AddrBits == 10
\* the Context slots of one OS thread
NCtx == 2
\* the values a general-purpose register takes: 0 .. MaxRegVal
MaxRegVal == 1
\* invocations of one proc() the model follows
MaxCalls == 2

AddrSpace == 2 ^ AddrBits
Threads == {1, 2}
Ctxs == 1 .. NCtx * Cardinality(Threads)
\* The slots in which the Contexts of thread t are kept.
SlotsOf(t) == (t - 1) * NCtx + 1 .. t * NCtx
RegVals == 0 .. MaxRegVal

\* ------------------------------------------------------------ Option<T>
None == << >>
Some(x) == << x >>

\* ------------------------------------------------------- architectures
Archs == {"x86", "x86_64", "x86_64_windows", "arm", "mips"}

Is64(a) == a \in {"x86_64", "x86_64_windows"}

\* size_of::<uint>()
size_of_uint(a) == IF Is64(a) THEN 8 ELSE 4

\* uint::max_value, in the scaled word
uint_max_value == AddrSpace - 1

\* Redefinitions from rt/arch/x86_64/regs.h
RUSTRT_ARG0 == 3
RUSTRT_RSP == 1
RUSTRT_IP == 8
RUSTRT_RBP == 2

\* struct Registers / type Registers: the slots of the register file
RegSlots(a) ==
    CASE a = "x86" -> {"eax", "ebx", "ecx", "edx", "ebp", "esi", "edi", "esp",
                       "cs", "ds", "ss", "es", "fs", "gs", "eflags", "eip"}
      [] a = "x86_64" -> 0 .. 21
      [] a = "x86_64_windows" -> 0 .. 33
      [] a = "arm" -> 0 .. 31
      [] a = "mips" -> 0 .. 31

\* fn new_regs() -> ~Registers: every slot zero
new_regs(a) == [s \in RegSlots(a) |-> 0]

\* ------------------------------------------------------------ memory
\* A store of one word through a raw pointer (unsafe { *sp = v }).
MemWrite(m, addr, v) ==
    [x \in (DOMAIN m) \cup {addr} |-> IF x = addr THEN v ELSE m[x]]

\* (mutant) the mask is that of an 8-byte alignment.
align_down_by_8(sp) == sp - (sp % 8)

\* fn align_down(sp): sp & !(16 - 1)
align_down(sp) == sp - (sp % 16)

\* (mutant) the count is taken as a count of bytes.
mut_offset_bytes(a, ptr, count) == (ptr + count) % AddrSpace

\* fn mut_offset(ptr, count): ptr as int + count * size_of::<T>()
mut_offset(a, ptr, count) == (ptr + count * size_of_uint(a)) % AddrSpace

\* --------------------------------------------- the call-frame builders
\* (mutant) the x86 builder stores the return address above the argument.
initialize_call_frame_x86_arg_low(regs, m, fptr, arg, sp) ==
    LET sp1 == align_down(sp)
        sp2 == mut_offset("x86", sp1, -4)
        m1  == MemWrite(m, sp2, 0)
        sp3 == mut_offset("x86", sp2, -1)
        m2  == MemWrite(m1, sp3, arg)
    IN  [regs |-> [regs EXCEPT !["esp"] = sp3, !["eip"] = fptr, !["ebp"] = 0],
         mem  |-> m2]

\* #[cfg(target_arch = "x86")] fn initialize_call_frame
initialize_call_frame_x86(regs, m, fptr, arg, sp) ==
    LET sp1 == align_down(sp)
        sp2 == mut_offset("x86", sp1, -4)
        m1  == MemWrite(m, sp2, arg)
        sp3 == mut_offset("x86", sp2, -1)
        m2  == MemWrite(m1, sp3, 0)       \* The final return address
    IN  [regs |-> [regs EXCEPT !["esp"] = sp3, !["eip"] = fptr, !["ebp"] = 0],
         mem  |-> m2]

\* (mutant) the x86_64 builder leaves the base pointer as it was captured.
initialize_call_frame_x86_64_rbp_kept(a, regs, m, fptr, arg, sp) ==
    LET sp1 == align_down(sp)
        sp2 == mut_offset(a, sp1, -1)
        m1  == MemWrite(m, sp2, 0)
    IN  [regs |-> [regs EXCEPT ![RUSTRT_ARG0] = arg, ![RUSTRT_RSP] = sp2,
                               ![RUSTRT_IP] = fptr],
         mem  |-> m1]

\* #[cfg(target_arch = "x86_64")] fn initialize_call_frame
initialize_call_frame_x86_64(a, regs, m, fptr, arg, sp) ==
    LET sp1 == align_down(sp)
        sp2 == mut_offset(a, sp1, -1)
        m1  == MemWrite(m, sp2, 0)        \* The final return address
    IN  [regs |-> [regs EXCEPT ![RUSTRT_ARG0] = arg, ![RUSTRT_RSP] = sp2,
                               ![RUSTRT_IP] = fptr, ![RUSTRT_RBP] = 0],
         mem  |-> m1]

\* #[cfg(target_arch = "arm")] fn initialize_call_frame
initialize_call_frame_arm(regs, m, fptr, arg, sp) ==
    LET sp1 == align_down(sp)
        sp2 == mut_offset("arm", sp1, -2)
        m1  == MemWrite(m, sp2, 0)        \* The final return address
    IN  [regs |-> [regs EXCEPT ![0] = arg, ![13] = sp2, ![14] = fptr],
         mem  |-> m1]

\* #[cfg(target_arch = "mips")] fn initialize_call_frame
initialize_call_frame_mips(regs, m, fptr, arg, sp) ==
    LET sp1 == align_down(sp)
        sp2 == mut_offset("mips", sp1, -2)
        m1  == MemWrite(m, sp2, 0)        \* The final return address
    IN  [regs |-> [regs EXCEPT ![4] = arg, ![29] = sp2, ![25] = fptr,
                               ![31] = fptr],
         mem  |-> m1]

\* The variant the build selects (#[cfg(target_arch = ...)]).
initialize_call_frame(a, regs, m, fptr, arg, sp) ==
    CASE a = "x86"  -> initialize_call_frame_x86(regs, m, fptr, arg, sp)
      [] Is64(a)    -> initialize_call_frame_x86_64(a, regs, m, fptr, arg, sp)
      [] a = "arm"  -> initialize_call_frame_arm(regs, m, fptr, arg, sp)
      [] a = "mips" -> initialize_call_frame_mips(regs, m, fptr, arg, sp)

\* ------------------------------------- the register transfer primitive
\* rust_swap_registers is foreign (rt/arch/$arch): it saves the live register
\* file into out_regs, the caller's return address as the instruction pointer,
\* loads the live registers from in_regs and jumps to the loaded instruction
\* pointer.  These are the slots it treats as instruction and stack pointer.
IpSlot(a) ==
    CASE a = "x86"  -> "eip"
      [] Is64(a)    -> RUSTRT_IP
      [] a = "arm"  -> 14
      [] a = "mips" -> 31

SpSlot(a) ==
    CASE a = "x86"  -> "esp"
      [] Is64(a)    -> RUSTRT_RSP
      [] a = "arm"  -> 13
      [] a = "mips" -> 29

\* The slot of the first argument in registers (x86 passes it on the stack).
ArgSlot(a) ==
    CASE Is64(a)    -> RUSTRT_ARG0
      [] a = "arm"  -> 0
      [] a = "mips" -> 4

\* The frame/base-pointer register of the architecture.
FpSlot(a) ==
    CASE a = "x86"  -> "ebp"
      [] Is64(a)    -> RUSTRT_RBP
      [] a = "arm"  -> 11
      [] a = "mips" -> 30

\* A callee-saved general-purpose register no frame builder writes.
GpSlot(a) ==
    CASE a = "x86"  -> "ebx"
      [] Is64(a)    -> 0
      [] a = "arm"  -> 4
      [] a = "mips" -> 16

\* What rust_swap_registers stores into out_regs: the live registers, with
\* the return address of the call as the instruction pointer.
SaveRegisters(a, live, retaddr) == [live EXCEPT ![IpSlot(a)] = retaddr]

\* ------------------------------------------------------ code addresses
\* task_start_wrapper as *c_void
task_start_wrapper == 904
\* the instruction after `rust_swap_registers(out_regs, in_regs)` in swap
swap_ret == 912
\* the instruction after the transient rust_swap_registers call in new
new_ret == 920

\* ------------------------------------------------------ the environment
\* Every Context slot has an address window of its own for its stack
\* segment; the native stacks of the OS threads lie above them.
WinBase(c) == 128 * c
StackOf(sp) == IF (sp \div 128) \in Ctxs THEN sp \div 128 ELSE 0
NativeSp(t) == WinBase(Cardinality(Ctxs) + t) + 64

\* StackSegment: (start(), end()) pairs a caller may pass to new for slot c:
\* a zero-length segment, and one whose end is 8- but not 16-aligned.
Regions(c) == { << WinBase(c) + 32, WinBase(c) + 32 + sz >> : sz \in {0, 72} }

\* Addresses the allocator may return for `~start`.
HeapAddrs == { 8 * k : k \in Ctxs }

\* ------------------------------------------------------------- state
VARIABLES
    arch,         \* the architecture variant the build selected
    active,       \* the OS threads that run
    life,         \* per Context slot: "none", "empty", "new" or "dropped"
    owner,        \* per Context slot: the OS thread that owns it (0: none)
    ctx,          \* per Context slot: the fields start, regs, stack_bounds
    region,       \* per Context slot: the StackSegment new was given
    heap,         \* per heap address: "free" or "live" (the boxed proc())
    mem,          \* the stack words written so far
    cpu,          \* per thread: the live machine registers
    stack_limit,  \* per thread: the thread-local guard range
    pc,           \* per thread: "run" (code that may call this module),
                  \* "transfer" (in swap, before rust_swap_registers),
                  \* "entry" (at task_start_wrapper, by a swap), "reentry"
                  \* (there again, by its own return), "trap" (a swap
                  \* loaded an instruction pointer that is no code), "fell"
                  \* (task_start_wrapper returned to no code), "ub"
    swp,          \* per thread: << out, in >> of the swap in progress
    cur,          \* per thread: the execution that is running
    saved,        \* per Context slot: the execution suspended in its regs
    ncalls,       \* per Context slot: invocations of its proc() so far
    nfree,        \* per Context slot: deallocations of its box so far
    last          \* per thread: the last swap the thread completed

vars == << arch, active, life, owner, ctx, region, heap, mem, cpu,
           stack_limit, pc, swp, cur, saved, ncalls, nfree, last >>

\* An execution: the stack it runs on (0: the native stack), the box whose
\* proc() it runs (0: none), the return address of its bottom frame, and
\* whether a later entry on the same stack has overwritten its frames.
NativeExec == [stk |-> 0, box |-> 0, ret |-> 0, stale |-> FALSE]

\* The last swap a thread completed: its arguments and the live registers at
\* the call (out = 0: none yet).
NoSwap == [out |-> 0, in |-> 0, regs |-> << >>]

\* pub fn empty() -> Context
empty_context(a) ==
    [start |-> None, regs |-> new_regs(a), stack_bounds |-> None]

InitWith(T) ==
    /\ arch \in Archs
    /\ active = T
    /\ life = [c \in Ctxs |-> "none"]
    /\ owner = [c \in Ctxs |-> 0]
    /\ ctx = [c \in Ctxs |-> empty_context(arch)]
    /\ region = [c \in Ctxs |-> << 0, 0 >>]
    /\ heap = [h \in HeapAddrs |-> "free"]
    /\ mem = << >>
    /\ cpu = [t \in Threads |->
                [new_regs(arch) EXCEPT ![SpSlot(arch)] = NativeSp(t)]]
    /\ stack_limit = [t \in Threads |-> << 0, 0 >>]
    /\ pc = [t \in Threads |-> "run"]
    /\ swp = [t \in Threads |-> << 0, 0 >>]
    /\ cur = [t \in Threads |-> NativeExec]
    /\ saved = [c \in Ctxs |-> None]
    /\ ncalls = [c \in Ctxs |-> 0]
    /\ nfree = [c \in Ctxs |-> 0]
    /\ last = [t \in Threads |-> NoSwap]

Init == InitWith({1})

Running(t) == t \in active /\ pc[t] = "run"

Mine(t, c) == life[c] \in {"empty", "new"} /\ owner[c] = t

\* The slots of a thread are handed out in order (0: none is left).
NextSlot(t) ==
    IF \E c \in SlotsOf(t) : life[c] = "none"
    THEN CHOOSE c \in SlotsOf(t) :
            life[c] = "none" /\ \A d \in SlotsOf(t) : d < c => life[d] # "none"
    ELSE 0

\* The allocator returns the lowest free address for `~start`.
NextBox ==
    IF \E h \in HeapAddrs : heap[h] = "free"
    THEN CHOOSE h \in HeapAddrs :
            heap[h] = "free" /\ \A g \in HeapAddrs : g < h => heap[g] # "free"
    ELSE 0

\* ----------------------------------------------------- Context::empty
Empty(t, c) ==
    /\ Running(t)
    /\ c = NextSlot(t)
    /\ life' = [life EXCEPT ![c] = "empty"]
    /\ owner' = [owner EXCEPT ![c] = t]
    /\ ctx' = [ctx EXCEPT ![c] = empty_context(arch)]
    /\ UNCHANGED << arch, active, region, heap, mem, cpu, stack_limit, pc,
                    swp, cur, saved, ncalls, nfree, last >>

\* ------------------------------------------------------- Context::new
\* (mutant) new does not look for a zero-length segment.
new_bounds_always_some(stack_base, sp) == Some(<< stack_base, sp >>)

\* (mutant) the two ends of the segment are stored in the other order.
new_bounds_reversed(stack_base, sp) ==
    IF sp = stack_base THEN None ELSE Some(<< sp, stack_base >>)

\* let bounds = if sp as uint == stack_base as uint { None } else { Some(..) }
new_bounds(stack_base, sp) ==
    IF sp = stack_base THEN None ELSE Some(<< stack_base, sp >>)

\* (mutant) new forgets the call to initialize_call_frame.
new_frame_unbuilt(a, live, m, box, sp) ==
    [regs |-> SaveRegisters(a, live, new_ret), mem |-> m]

\* (mutant) new passes the entry point and its argument in the other order.
new_frame_args_swapped(a, live, m, box, sp) ==
    initialize_call_frame(a, SaveRegisters(a, live, new_ret), m,
                          box, task_start_wrapper, sp)

\* The register file new builds: the transient save of the live registers,
\* then the call frame of task_start_wrapper(&*start) on the segment.
new_frame(a, live, m, box, sp) ==
    initialize_call_frame(a, SaveRegisters(a, live, new_ret), m,
                          task_start_wrapper, box, sp)

New(t, c, seg, box) ==
    /\ Running(t)
    /\ c = NextSlot(t)
    /\ box = NextBox
    /\ LET sp == seg[2]                      \* stack.end()
           fr == new_frame(arch, cpu[t], mem, box, sp)
           stack_base == seg[1]              \* stack.start()
       IN  /\ ctx' = [ctx EXCEPT ![c] =
                        [start |-> Some(box), regs |-> fr.regs,
                         stack_bounds |-> new_bounds(stack_base, sp)]]
           /\ mem' = fr.mem
    /\ heap' = [heap EXCEPT ![box] = "live"]
    /\ life' = [life EXCEPT ![c] = "new"]
    /\ owner' = [owner EXCEPT ![c] = t]
    /\ region' = [region EXCEPT ![c] = seg]
    /\ UNCHANGED << arch, active, cpu, stack_limit, pc, swp, cur, saved,
                    ncalls, nfree, last >>

\* ------------------------------------------------------ Context::swap
\* (mutant) the None arm resets the limit to (0, 0).
swap_stack_bounds_zero(bounds) ==
    IF bounds = None THEN << 0, 0 >> ELSE bounds[1]

\* (mutant) swap records the maximal range whatever the bounds are.
swap_stack_bounds_maximal(bounds) == << 0, uint_max_value >>

\* match in_context.stack_bounds { Some((lo, hi)) => record_stack_bounds(lo, hi),
\*                                 None => record_stack_bounds(0, uint::max_value) }
swap_stack_bounds(bounds) ==
    IF bounds = None THEN << 0, uint_max_value >> ELSE bounds[1]

\* (mutant) the two register files are passed in the other order.
swap_regs_args_reversed(out_context, in_context) ==
    [out |-> in_context, in |-> out_context]

\* (mutant) in_regs is passed twice.
swap_regs_args_in_twice(out_context, in_context) ==
    [out |-> in_context, in |-> in_context]

\* rust_swap_registers(out_regs, in_regs): whose register file is written
\* and whose is loaded.
swap_regs_args(out_context, in_context) ==
    [out |-> out_context, in |-> in_context]

\* (mutant) swap goes to the register transfer without recording the bounds.
SwapRecordUnpublished(t, out_context, in_context) ==
    /\ Running(t)
    /\ Mine(t, out_context)
    /\ Mine(t, in_context)
    /\ out_context # in_context
    /\ pc' = [pc EXCEPT ![t] = "transfer"]
    /\ swp' = [swp EXCEPT ![t] = << out_context, in_context >>]
    /\ UNCHANGED << arch, active, life, owner, ctx, region, heap, mem, cpu,
                    stack_limit, cur, saved, ncalls, nfree, last >>

\* (mutant) the guard range is kept in one slot all threads share.
SwapRecordGlobal(t, out_context, in_context) ==
    /\ Running(t)
    /\ Mine(t, out_context)
    /\ Mine(t, in_context)
    /\ out_context # in_context
    /\ stack_limit' = [u \in Threads |->
                         swap_stack_bounds(ctx[in_context].stack_bounds)]
    /\ pc' = [pc EXCEPT ![t] = "transfer"]
    /\ swp' = [swp EXCEPT ![t] = << out_context, in_context >>]
    /\ UNCHANGED << arch, active, life, owner, ctx, region, heap, mem, cpu,
                    cur, saved, ncalls, nfree, last >>

\* Step (1) of swap: the guard range of in_context goes to the TLS slot.
SwapRecord(t, out_context, in_context) ==
    /\ Running(t)
    /\ Mine(t, out_context)
    /\ Mine(t, in_context)
    /\ out_context # in_context
    /\ stack_limit' = [stack_limit EXCEPT ![t] =
                         swap_stack_bounds(ctx[in_context].stack_bounds)]
    /\ pc' = [pc EXCEPT ![t] = "transfer"]
    /\ swp' = [swp EXCEPT ![t] = << out_context, in_context >>]
    /\ UNCHANGED << arch, active, life, owner, ctx, region, heap, mem, cpu,
                    cur, saved, ncalls, nfree, last >>

\* Where control is once the instruction pointer ip is loaded with stack
\* pointer sp: the entry of the trampoline, the return from an earlier swap
\* (the execution suspended there goes on), or no code at all.
AfterLoad(ip, susp) ==
    CASE ip = task_start_wrapper -> "entry"
      [] ip = swap_ret /\ susp # None /\ ~susp[1].stale -> "run"
      [] ip = swap_ret -> "ub"
      [] OTHER -> "trap"

\* Step (2) of swap: rust_swap_registers(out_regs, in_regs).
SwapTransfer(t) ==
    /\ t \in active
    /\ pc[t] = "transfer"
    /\ LET a  == swap_regs_args(swp[t][1], swp[t][2])
           ld == ctx[a.in].regs
           to == AfterLoad(ld[IpSlot(arch)], saved[a.in])
       IN  /\ ctx' = [ctx EXCEPT ![a.out].regs =
                        SaveRegisters(arch, cpu[t], swap_ret)]
           /\ cpu' = [cpu EXCEPT ![t] = ld]
           /\ saved' = [saved EXCEPT ![a.out] = Some(cur[t])]
           /\ pc' = [pc EXCEPT ![t] = to]
           /\ cur' = [cur EXCEPT ![t] =
                        IF to = "run" THEN saved[a.in][1]
                        ELSE [stk |-> StackOf(ld[SpSlot(arch)]), box |-> 0,
                              ret |-> 0, stale |-> FALSE]]
           /\ last' = [last EXCEPT ![t] =
                         [out |-> swp[t][1], in |-> swp[t][2],
                          regs |-> cpu[t]]]
    /\ swp' = [swp EXCEPT ![t] = << 0, 0 >>]
    /\ UNCHANGED << arch, active, life, owner, region, heap, mem,
                    stack_limit, ncalls, nfree >>

\* -------------------------------------------------- task_start_wrapper
\* A load of one word; a word never written holds no defined value (-1).
MemRead(m, addr) == IF addr \in DOMAIN m THEN m[addr] ELSE -1

\* The argument f the entry of task_start_wrapper finds: on x86 the stack
\* word above the return address, elsewhere the first argument register.
TrampolineArg(a, live, m) ==
    IF a = "x86" THEN MemRead(m, (live["esp"] + 4) % AddrSpace)
    ELSE live[ArgSlot(a)]

\* The address task_start_wrapper returns to: on the x86 family the word at
\* the stack pointer on entry, on ARM and MIPS the link register on entry.
TrampolineRet(a, live, m) ==
    IF a = "x86" \/ Is64(a) THEN MemRead(m, live[SpSlot(a)])
    ELSE live[IpSlot(a)]

\* The Context that owns the live box at address b.
BoxOwner(b) == CHOOSE c \in Ctxs : life[c] = "new" /\ ctx[c].start = Some(b)

\* (mutant) task_start_wrapper calls the proc() by value, which frees it.
wrapper_frees_proc(f) == { f }

\* The boxes task_start_wrapper deallocates once (*f)() has returned: none,
\* f is transmuted to a stack closure so that the procedure is not freed here.
wrapper_frees(f) == { }

\* The boxes the destructor of a Context deallocates: start, when present.
drop_frees(start) == IF start = None THEN { } ELSE { start[1] }

\* The heap and the deallocation counts after the boxes in bs are freed.
FreeHeap(bs) == [h \in HeapAddrs |-> IF h \in bs THEN "free" ELSE heap[h]]

FreeCount(bs) ==
    [c \in Ctxs |->
        IF life[c] = "new" /\ ctx[c].start # None /\ ctx[c].start[1] \in bs
              /\ nfree[c] < 2
        THEN nfree[c] + 1 ELSE nfree[c]]

\* extern fn task_start_wrapper(f: &proc()): the entry, up to the call (*f)().
Trampoline(t) ==
    /\ t \in active
    /\ pc[t] \in {"entry", "reentry"}
    /\ LET f   == TrampolineArg(arch, cpu[t], mem)
           ret == TrampolineRet(arch, cpu[t], mem)
           stk == StackOf(cpu[t][SpSlot(arch)])
       IN  IF f \in HeapAddrs /\ heap[f] = "live"
           THEN /\ ncalls[BoxOwner(f)] < MaxCalls
                /\ ncalls' = [ncalls EXCEPT ![BoxOwner(f)] = @ + 1]
                /\ cur' = [cur EXCEPT ![t] =
                             [stk |-> stk, box |-> f, ret |-> ret,
                              stale |-> FALSE]]
                /\ saved' = [c \in Ctxs |->
                               IF saved[c] # None /\ saved[c][1].stk = stk
                               THEN Some([saved[c][1] EXCEPT !.stale = TRUE])
                               ELSE saved[c]]
                /\ pc' = [pc EXCEPT ![t] = "run"]
           ELSE /\ pc' = [pc EXCEPT ![t] = "ub"]
                /\ UNCHANGED << ncalls, cur, saved >>
    /\ UNCHANGED << arch, active, life, owner, ctx, region, heap, mem, cpu,
                    stack_limit, swp, nfree, last >>

\* (*f)() returns and task_start_wrapper returns after it.
Return(t) ==
    /\ Running(t)
    /\ cur[t].box # 0
    /\ heap' = FreeHeap(wrapper_frees(cur[t].box))
    /\ nfree' = FreeCount(wrapper_frees(cur[t].box))
    /\ cur' = [cur EXCEPT ![t].box = 0]
    /\ IF cur[t].ret = task_start_wrapper
       THEN \* the argument register holds what the procedure left there:
            \* still f, or something else
            /\ \E v \in {cur[t].box, 0} :
                 cpu' = [cpu EXCEPT ![t][IpSlot(arch)] = cur[t].ret,
                                    ![t][ArgSlot(arch)] = v]
            /\ pc' = [pc EXCEPT ![t] = "reentry"]
       ELSE /\ cpu' = [cpu EXCEPT ![t][IpSlot(arch)] = cur[t].ret]
            /\ pc' = [pc EXCEPT ![t] = "fell"]
    /\ UNCHANGED << arch, active, life, owner, ctx, region, mem,
                    stack_limit, swp, saved, ncalls, last >>

\* ------------------------------------------------- the drop of a Context
Drop(t, c) ==
    /\ Running(t)
    /\ Mine(t, c)
    /\ heap' = FreeHeap(drop_frees(ctx[c].start))
    /\ nfree' = [nfree EXCEPT ![c] =
                   IF drop_frees(ctx[c].start) # { } /\ @ < 2 THEN @ + 1 ELSE @]
    /\ life' = [life EXCEPT ![c] = "dropped"]
    /\ UNCHANGED << arch, active, owner, ctx, region, mem, cpu, stack_limit,
                    pc, swp, cur, saved, ncalls, last >>

\* ------------------------------------------- the running code computes
Compute(t, s, v) ==
    /\ Running(t)
    /\ cpu[t][s] # v
    /\ cpu' = [cpu EXCEPT ![t][s] = v]
    /\ UNCHANGED << arch, active, life, owner, ctx, region, heap, mem,
                    stack_limit, pc, swp, cur, saved, ncalls, nfree, last >>

\* ------------------------------------------------------ specification
Next ==
    \E t \in Threads :
        \/ \E c \in Ctxs : Empty(t, c)
        \/ \E c \in Ctxs : \E seg \in Regions(c) : \E box \in HeapAddrs :
               New(t, c, seg, box)
        \/ \E o \in Ctxs : \E i \in Ctxs : SwapRecord(t, o, i)
        \/ SwapTransfer(t)
        \/ Trampoline(t)
        \/ Return(t)
        \/ \E c \in Ctxs : Drop(t, c)
        \/ \E s \in {GpSlot(arch), FpSlot(arch)} : \E v \in RegVals :
               Compute(t, s, v)

Spec == Init /\ [][Next]_vars

\* ------------------------------------- new on any segment of the caller
\* StackSegment: new takes whatever (start(), end()) the caller passes: a
\* zero-length segment or one of SegDepth bytes, ending at any address above
\* the lowest SegDepth bytes of the address space.
SegDepth == 64

Segments ==
    { << hi - len, hi >> : hi \in SegDepth .. AddrSpace - 1, len \in {0, SegDepth} }

\* One thread computes, builds one Context on a segment of its choice and
\* drops it.
FrameNext ==
    \/ /\ NextSlot(1) = 1
       /\ \E seg \in Segments : New(1, 1, seg, NextBox)
    \/ Drop(1, 1)
    \/ \E s \in {GpSlot(arch), FpSlot(arch)} : \E v \in RegVals :
           Compute(1, s, v)

FrameSpec == Init /\ [][FrameNext]_vars

\* ------------------------------------- new twice on the same segment
\* One thread computes, builds a Context, drops it, and builds a second one
\* on the same segment; the allocator returns the freed address for `~start`
\* again.
RebuildNext ==
    \/ /\ NextSlot(1) = 1
       /\ \E seg \in Regions(1) : New(1, 1, seg, NextBox)
    \/ /\ life[1] = "dropped"
       /\ New(1, 2, region[1], NextBox)
    \/ \E c \in Ctxs : Drop(1, c)
    \/ \E s \in {GpSlot(arch), FpSlot(arch)} : \E v \in RegVals :
           Compute(1, s, v)

RebuildSpec == Init /\ [][RebuildNext]_vars

\* ------------------------------------------- two OS threads that swap
\* Both OS threads run; each builds its own Contexts and swaps among them,
\* in a build for one architecture of each calling convention.
TwoThreadsInit == InitWith(Threads) /\ arch \in {"x86_64", "arm"}

TwoThreadsNext ==
    \E t \in Threads :
        \/ \E c \in Ctxs : Empty(t, c)
        \/ \E c \in Ctxs : \E seg \in Regions(c) : New(t, c, seg, NextBox)
        \/ \E o \in Ctxs : \E i \in Ctxs : SwapRecord(t, o, i)
        \/ SwapTransfer(t)
        \/ Trampoline(t)

TwoThreadsSpec == TwoThreadsInit /\ [][TwoThreadsNext]_vars

\* ====================================================================
\* Properties
\* ====================================================================

\* A step of thread t that is the register transfer of its swap.
Transferred(t) == pc[t] = "transfer" /\ pc'[t] # "transfer"

\* C1 as stated: once the computation of a Context has been invoked, no
\* later swap into that Context enters the trampoline again.
C1_NoReentryBySwap ==
    [][\A t \in Threads :
         (Transferred(t) /\ ncalls[swp[t][2]] >= 1) => pc'[t] # "entry"]_vars

\* C1 as amended: a swap into a Context enters the trampoline exactly when
\* the Context was created by new and no swap has saved into it yet, and the
\* trampoline entered by that swap then invokes the computation of that very
\* Context once more.
C1_EntryIffNeverSavedInto ==
    [][\A t \in Threads :
         /\ Transferred(t) =>
              (pc'[t] = "entry" <=>
                  (life[swp[t][2]] = "new" /\ saved[swp[t][2]] = None))
         /\ (pc[t] = "entry" /\ pc'[t] = "run") =>
              ncalls' = [ncalls EXCEPT ![last[t].in] = @ + 1]]_vars

\* A Context whose computation ran once, which then saved itself by a swap,
\* has been swapped into again and went on after that swap.
C1_Witness ==
    \E c \in Ctxs :
        /\ life[c] = "new" /\ ncalls[c] = 1
        /\ last[1].in = c /\ pc[1] = "run"
        /\ cur[1].box = ctx[c].start[1]
        /\ cpu[1][IpSlot(arch)] = swap_ret

\* The guard range the bounds b of a Context stand for.
RangeOf(b) == IF b = None THEN << 0, AddrSpace - 1 >> ELSE << b[1][1], b[1][2] >>

\* C2: in every swap the guard range of `in` is in the thread-local slot
\* before the registers are transferred, the step after its publication is
\* the register transfer, which leaves the slot alone; so the resumed
\* context finds the range of `in` from its first step on.
C2_PublishedBeforeTransfer ==
    [][\A t \in Threads :
         /\ (pc[t] = "run" /\ pc'[t] = "transfer") =>
              /\ stack_limit'[t] = RangeOf(ctx[swp'[t][2]].stack_bounds)
              /\ cpu'[t] = cpu[t] /\ ctx' = ctx
         /\ pc[t] = "transfer" =>
              /\ stack_limit[t] = RangeOf(ctx[swp[t][2]].stack_bounds)
              /\ pc'[t] # pc[t] =>
                   /\ pc'[t] \in {"entry", "run", "trap", "ub"}
                   /\ cpu'[t] = ctx[swp[t][2]].regs
                   /\ stack_limit'[t] = stack_limit[t]]_vars

\* A swap into a Context with bounds is between its two steps.
C2_Witness ==
    /\ pc[1] = "transfer"
    /\ ctx[swp[1][2]].stack_bounds # None
    /\ stack_limit[1] = ctx[swp[1][2]].stack_bounds[1]

\* C3: once a swap has transferred control, and until the next swap, the
\* thread-local guard range is (lo, hi) when the stack_bounds of `in` are
\* Some(lo, hi) and (0, maximum address) when they are None.
C3_GuardRangeIsThatOfIn ==
    \A t \in Threads :
        (pc[t] # "transfer" /\ last[t].in # 0) =>
            stack_limit[t] = RangeOf(ctx[last[t].in].stack_bounds)

\* The thread came back to a Context without bounds after it had run a
\* Context with bounds: the range is the maximal one again.
C3_Witness ==
    \E c \in Ctxs :
        /\ pc[1] = "run" /\ last[1].in # 0 /\ last[1].in # c
        /\ ctx[last[1].in].stack_bounds = None
        /\ ctx[c].stack_bounds # None /\ ncalls[c] >= 1
        /\ stack_limit[1] = << 0, AddrSpace - 1 >>

\* C4: when swap(a, b) is followed by swap(b, a) from the execution it
\* resumed, the registers loaded are those A held when it called swap, with
\* the instruction pointer at the instruction after its swap call.
C4_RoundTrip ==
    [][\A t \in Threads :
         (Transferred(t) /\ last[t].out = swp[t][2] /\ last[t].in = swp[t][1]) =>
             /\ cpu'[t][IpSlot(arch)] = swap_ret
             /\ \A s \in RegSlots(arch) \ {IpSlot(arch)} :
                    cpu'[t][s] = last[t].regs[s]]_vars

\* The native thread is resumed by the task it had swapped into, which had
\* run with other register values in between.
C4_Witness ==
    /\ pc[1] = "run" /\ last[1].out # 0
    /\ cur[1].stk = 0
    /\ saved[last[1].out] # None /\ saved[last[1].out][1].box # 0
    /\ cpu[1][IpSlot(arch)] = swap_ret
    /\ cpu[1][GpSlot(arch)] # last[1].regs[GpSlot(arch)]
    /\ cpu[1][GpSlot(arch)] = ctx[last[1].in].regs[GpSlot(arch)]

\* C5 as stated: when task_start_wrapper returns, control is at the zero
\* return address the frame builder wrote, on every architecture.
C5_ReturnLandsOnSentinel ==
    \A t \in Threads :
        pc[t] \in {"fell", "reentry"} => cpu[t][IpSlot(arch)] = 0

\* C6: the box of a Context created by new is live as long as the Context
\* is, is deallocated once when the Context is dropped and never otherwise,
\* and the argument the trampoline finds after a swap is the live box of the
\* Context swapped into.
C6_BoxFreedOnceByDrop ==
    /\ \A c \in Ctxs :
        /\ nfree[c] <= 1
        /\ life[c] = "new" =>
             /\ ctx[c].start # None
             /\ heap[ctx[c].start[1]] = "live"
             /\ nfree[c] = 0
        /\ life[c] = "empty" => nfree[c] = 0
        /\ (life[c] = "dropped" /\ ctx[c].start # None) => nfree[c] = 1
    /\ \A t \in Threads :
        pc[t] = "entry" =>
            LET f == TrampolineArg(arch, cpu[t], mem)
            IN  f \in HeapAddrs /\ heap[f] = "live" /\ Some(f) = ctx[last[t].in].start

\* Two Contexts made by new are dropped, one after its computation was
\* invoked, one that never ran.
C6_Witness ==
    \E c \in Ctxs : \E d \in Ctxs :
        /\ life[c] = "dropped" /\ ctx[c].start # None /\ ncalls[c] = 1
        /\ life[d] = "dropped" /\ ctx[d].start # None /\ ncalls[d] = 0
        /\ nfree[c] = 1 /\ nfree[d] = 1

\* C7: the two steps of swap(out, in) leave `in` as it is, leave start and
\* stack_bounds of `out` as they are, and touch no other Context, no box and
\* no stack word: only out.regs and the thread-local guard range change.
C7_SwapFrame ==
    [][\A t \in Threads :
         /\ (pc[t] = "run" /\ pc'[t] = "transfer") =>
              /\ ctx' = ctx /\ heap' = heap /\ mem' = mem /\ life' = life
         /\ Transferred(t) =>
              /\ ctx'[swp[t][2]] = ctx[swp[t][2]]
              /\ ctx'[swp[t][1]].start = ctx[swp[t][1]].start
              /\ ctx'[swp[t][1]].stack_bounds = ctx[swp[t][1]].stack_bounds
              /\ \A c \in Ctxs \ {swp[t][1]} : ctx'[c] = ctx[c]
              /\ heap' = heap /\ mem' = mem /\ life' = life
              /\ stack_limit' = stack_limit]_vars

\* A swap out of an empty() Context into a fresh one has happened: out.regs
\* hold the suspended caller, `in` is still the frame new built.
C7_Witness ==
    /\ pc[1] = "entry"
    /\ life[last[1].out] = "empty"
    /\ ctx[last[1].out].regs[IpSlot(arch)] = swap_ret
    /\ ctx[last[1].in].regs[IpSlot(arch)] = task_start_wrapper
    /\ stack_limit[1] # << 0, 0 >>

\* C8 as stated: no swap into a constructed Context loads an instruction
\* pointer that is neither the trampoline nor the return of an earlier swap.
C8_SwapNeverLoadsInvalidIp ==
    \A t \in Threads : pc[t] # "trap"

\* C8 as amended: a swap into a Context made by new, or into one an earlier
\* swap saved into, transfers control to the trampoline or to the
\* instruction after that swap; a swap into an empty() Context no swap has
\* saved into loads the all-zero register file and goes to address zero.
C8_ValidOnceBuiltOrSaved ==
    [][\A t \in Threads :
         Transferred(t) =>
            IF life[swp[t][2]] = "empty" /\ saved[swp[t][2]] = None
            THEN cpu'[t] = new_regs(arch) /\ pc'[t] = "trap"
            ELSE /\ cpu'[t][IpSlot(arch)] \in {task_start_wrapper, swap_ret}
                 /\ pc'[t] # "trap"]_vars

\* The thread went on through an empty() Context that a swap had saved into.
C8_Witness ==
    /\ pc[1] = "run" /\ last[1].in # 0
    /\ life[last[1].in] = "empty"
    /\ cpu[1][IpSlot(arch)] = swap_ret

\* C9: new sets stack_bounds to None when the end of the segment equals its
\* start and to Some(start, end) otherwise; empty() has neither bounds nor
\* a computation.
C9_Bounds ==
    \A c \in Ctxs :
        /\ life[c] = "new" =>
             ctx[c].stack_bounds =
                IF region[c][2] = region[c][1] THEN << >>
                ELSE << << region[c][1], region[c][2] >> >>
        /\ life[c] = "empty" =>
             ctx[c].stack_bounds = << >> /\ ctx[c].start = << >>

\* Both kinds of segment were given to new, and a swap has taken place.
C9_Witness ==
    \E c \in Ctxs : \E d \in Ctxs :
        /\ life[c] = "new" /\ ctx[c].stack_bounds = None
        /\ region[c][1] = region[c][2]
        /\ life[d] = "new" /\ ctx[d].stack_bounds # None
        /\ last[1].out # 0

\* C10: the register file new builds has the trampoline in the instruction
\* pointer role and the address of the Context's own box in the argument
\* role, and the trampoline entered by the first swap into the Context
\* finds that address as its argument.
C10_ArgumentDelivery ==
    /\ \A c \in Ctxs :
        (life[c] = "new" /\ saved[c] = None) =>
            LET r == ctx[c].regs
                f == ctx[c].start[1]
            IN  CASE arch = "x86" ->
                       /\ r["eip"] = task_start_wrapper
                       /\ (r["esp"] + 4) % AddrSpace \in DOMAIN mem
                       /\ mem[(r["esp"] + 4) % AddrSpace] = f
                       /\ mem[r["esp"]] = 0
                  [] arch \in {"x86_64", "x86_64_windows"} ->
                       r[8] = task_start_wrapper /\ r[3] = f
                  [] arch = "arm" ->
                       r[14] = task_start_wrapper /\ r[0] = f
                  [] arch = "mips" ->
                       /\ r[25] = task_start_wrapper
                       /\ r[31] = task_start_wrapper /\ r[4] = f
    /\ \A t \in Threads :
        pc[t] = "entry" =>
            /\ cpu[t][IpSlot(arch)] = task_start_wrapper
            /\ Some(TrampolineArg(arch, cpu[t], mem)) = ctx[last[t].in].start

\* The first swap into a Context made by new is at the trampoline's entry.
C10_Witness ==
    /\ pc[1] = "entry"
    /\ life[last[1].in] = "new"
    /\ ncalls[last[1].in] = 0

\* A Context as new returned it: no swap has saved into its register file.
AsBuilt(c) == life[c] = "new" /\ saved[c] = None

\* C11: whatever address the segment ends at, the stack pointer new stores
\* has the alignment of the architecture once the reserved slots are counted:
\* esp + 4 is a multiple of 16 on x86, rsp + 8 is a multiple of 16 on x86_64,
\* and the stack pointer is a multiple of 8 on ARM and MIPS.
C11_Alignment ==
    \A c \in Ctxs :
        AsBuilt(c) =>
            LET r == ctx[c].regs
            IN  CASE arch = "x86" -> (r["esp"] + 4) % 16 = 0
                  [] arch \in {"x86_64", "x86_64_windows"} -> (r[1] + 8) % 16 = 0
                  [] arch = "arm" -> r[13] % 8 = 0
                  [] arch = "mips" -> r[29] % 8 = 0

\* A Context was built on a segment whose end is not even word-aligned.
C11_Witness ==
    \E c \in Ctxs : AsBuilt(c) /\ region[c][2] % 16 = 5

\* C15 as stated: the stored stack pointer is the reserved slots below the
\* end of the segment rounded down to a multiple of 16 on x86 and x86_64 and
\* to a multiple of 8 on ARM and MIPS.
C15_AlignsToRequired ==
    \A c \in Ctxs :
        AsBuilt(c) =>
            LET r == ctx[c].regs
                e == region[c][2]
            IN  CASE arch = "x86" -> (r["esp"] + 20) % AddrSpace = e - (e % 16)
                  [] arch \in {"x86_64", "x86_64_windows"} ->
                       (r[1] + 8) % AddrSpace = e - (e % 16)
                  [] arch = "arm" -> (r[13] + 8) % AddrSpace = e - (e % 8)
                  [] arch = "mips" -> (r[29] + 8) % AddrSpace = e - (e % 8)

\* C15 as amended: on every architecture the end of the segment is rounded
\* down to a multiple of 16 before the slots are reserved (5 words on x86,
\* 1 word on x86_64, 2 words on ARM and MIPS).
C15_AlignsTo16 ==
    \A c \in Ctxs :
        AsBuilt(c) =>
            LET r == ctx[c].regs
                e == region[c][2]
            IN  CASE arch = "x86" -> (r["esp"] + 20) % AddrSpace = e - (e % 16)
                  [] arch \in {"x86_64", "x86_64_windows"} ->
                       (r[1] + 8) % AddrSpace = e - (e % 16)
                  [] arch = "arm" -> (r[13] + 8) % AddrSpace = e - (e % 16)
                  [] arch = "mips" -> (r[29] + 8) % AddrSpace = e - (e % 16)

\* On ARM a segment ended at a multiple of 8 that is no multiple of 16, and
\* the stack pointer stored is 16 below that end.
C15_Witness ==
    \E c \in Ctxs :
        /\ AsBuilt(c) /\ arch = "arm"
        /\ region[c][2] % 16 = 8
        /\ ctx[c].regs[13] = region[c][2] - 16

\* C16 as stated: every stack word written while a Context is built lies
\* inside the segment new was given, the zero-length segment included.
C16_WritesInsideSegment ==
    \A c \in Ctxs :
        (life[c] = "new" /\ \A d \in Ctxs \ {c} : life[d] = "none") =>
            \A x \in DOMAIN mem : region[c][1] <= x /\ x < region[c][2]

\* C18: on a segment of at least 64 bytes new stores Some(start, end) as the
\* bounds and a stack pointer inside them, at most 35 bytes below the end.
C18_StackPointerInBounds ==
    \A c \in Ctxs :
        (AsBuilt(c) /\ region[c][2] - region[c][1] >= 64) =>
            LET sp == ctx[c].regs[SpSlot(arch)]
                lo == region[c][1]
                hi == region[c][2]
            IN  /\ ctx[c].stack_bounds = << << lo, hi >> >>
                /\ lo <= sp /\ sp < hi
                /\ hi - sp <= 35

\* On x86 a segment of 64 bytes ended 15 above a multiple of 16: the stack
\* pointer is the full 35 bytes below the end.
C18_Witness ==
    \E c \in Ctxs :
        /\ AsBuilt(c) /\ arch = "x86"
        /\ region[c][2] - region[c][1] = 64
        /\ region[c][2] - ctx[c].regs["esp"] = 35

\* C12 as stated: on every architecture the frame-pointer slot of the
\* register file new returns is zero, whatever the live registers were.
C12_FramePointerZero ==
    \A c \in Ctxs : AsBuilt(c) => ctx[c].regs[FpSlot(arch)] = 0

\* Two Contexts new returned for the same argument and the same segment.
SameCall(c, d) ==
    /\ c # d
    /\ life[c] \in {"new", "dropped"} /\ saved[c] = None
    /\ life[d] \in {"new", "dropped"} /\ saved[d] = None
    /\ ctx[c].start = ctx[d].start
    /\ region[c] = region[d]

\* C14 as stated: two calls to new with the same trampoline, argument and
\* segment return equal register files, whatever the live registers were.
C14_RegsIndependentOfLive ==
    \A c \in Ctxs : \A d \in Ctxs :
        SameCall(c, d) => ctx[c].regs = ctx[d].regs

\* C14 as amended: the slots the builder writes (instruction pointer, stack
\* pointer, the argument register where there is one, the base pointer on
\* x86 and x86_64) are equal in the two register files.
C14_BuiltSlotsIndependentOfLive ==
    \A c \in Ctxs : \A d \in Ctxs :
        SameCall(c, d) =>
            LET r == ctx[c].regs
                q == ctx[d].regs
            IN  CASE arch = "x86" ->
                       r["eip"] = q["eip"] /\ r["esp"] = q["esp"] /\ r["ebp"] = q["ebp"]
                  [] arch \in {"x86_64", "x86_64_windows"} ->
                       r[8] = q[8] /\ r[1] = q[1] /\ r[3] = q[3] /\ r[2] = q[2]
                  [] arch = "arm" ->
                       r[14] = q[14] /\ r[13] = q[13] /\ r[0] = q[0]
                  [] arch = "mips" ->
                       r[31] = q[31] /\ r[25] = q[25] /\ r[29] = q[29] /\ r[4] = q[4]

\* The second call found other live registers than the first: the two
\* register files differ in a slot the builder does not write, and on x86_64
\* the base pointers captured differed as well.
C14_Witness ==
    /\ SameCall(1, 2)
    /\ ctx[1].start # None
    /\ arch = "x86_64"
    /\ ctx[1].regs[GpSlot(arch)] # ctx[2].regs[GpSlot(arch)]
    /\ ctx[2].regs[RUSTRT_RBP] = 0 /\ cpu[1][RUSTRT_RBP] # 0

\* The execution thread t runs is the computation of Context c, on the
\* segment c was created with.
Executing(t, c) ==
    /\ pc[t] = "run"
    /\ life[c] = "new" /\ region[c][1] < region[c][2]
    /\ cur[t].box # 0 /\ ctx[c].start = Some(cur[t].box)
    /\ cur[t].stk = c

\* C17 as stated: whenever the computation of a Context created on a
\* segment (lo, hi) with lo < hi is executing on that segment, the guard
\* range of the thread is (lo, hi).
C17_GuardFollowsStack ==
    \A t \in Threads : \A c \in Ctxs :
        Executing(t, c) => stack_limit[t] = region[c]

\* C17 as amended: the guard range follows the Context named as `in`: when
\* the computation of a Context created on (lo, hi), lo < hi, is executing
\* on that segment and the last swap of the thread named that Context as
\* `in`, the guard range is (lo, hi).
C17_GuardFollowsIn ==
    \A t \in Threads : \A c \in Ctxs :
        (Executing(t, c) /\ last[t].in = c) => stack_limit[t] = region[c]

\* The computation of a Context goes on, on its own segment, after a swap
\* that named the Context as `in` resumed it.
C17_Witness ==
    \E c \in Ctxs :
        /\ Executing(1, c) /\ last[1].in = c
        /\ saved[last[1].out] # None
        /\ cpu[1][IpSlot(arch)] = swap_ret
        /\ stack_limit[1] = region[c]

\* A step of thread t that is the first step of a swap it calls.
Recorded(t) == pc[t] = "run" /\ pc'[t] = "transfer"

\* C13: with two OS threads that swap among Contexts of their own, the
\* guard range of a thread changes only in a swap of that thread, to the
\* range of the `in` of that swap; no step of a swap of the other thread
\* changes it; and once the swap has transferred control it is the range of
\* the Context the thread swapped into last.
C13_SingleWriter ==
    [][\A t \in Threads :
         /\ stack_limit'[t] # stack_limit[t] =>
              /\ Recorded(t)
              /\ owner[swp'[t][1]] = t /\ owner[swp'[t][2]] = t
              /\ stack_limit'[t] = RangeOf(ctx[swp'[t][2]].stack_bounds)
         /\ \A u \in Threads \ {t} :
              (Recorded(u) \/ Transferred(u)) => stack_limit'[t] = stack_limit[t]
         /\ (pc'[t] # "transfer" /\ last'[t].in # 0) =>
              stack_limit'[t] = RangeOf(ctx'[last'[t].in].stack_bounds)]_vars

\* Both threads have swapped, into Contexts of different bounds, and one of
\* them is in the middle of its next swap while the other runs.
C13_Witness ==
    /\ last[1].in # 0 /\ last[2].in # 0
    /\ owner[last[1].in] = 1 /\ owner[last[2].in] = 2
    /\ pc[1] = "transfer" /\ pc[2] = "run"
    /\ ctx[last[2].in].stack_bounds # None
    /\ stack_limit[2] = ctx[last[2].in].stack_bounds[1]
    /\ stack_limit[1] # stack_limit[2]

====
